---- MODULE Spec2Model ----
(***************************************************************************)
(* StockMonitor: the market-session scheduler (utils/marketHours.ts,       *)
(* utils/marketConfig.ts) and its consumer (hooks/useStocks.ts).           *)
(*                                                                         *)
(* Time is the exchange's wall clock in whole seconds since a Thursday     *)
(* 00:00:00 (as the JavaScript epoch is): getEasternTime() builds its Date *)
(* from toLocaleString(), which has one-second resolution, and every later *)
(* setDate/setHours/getTime works on that Date's wall-clock fields.  The   *)
(* model has no daylight-saving shift.  A day is named by its index        *)
(* (day 0 is the Thursday); the holiday calendar of nyse-holidays is an    *)
(* input: a set of day indices, and a flag for the predicate throwing.     *)
(* Of the reducer state, error (Apollo's) is left out, and of MarketState   *)
(* the timeUntilOpen breakdown and dataStatus.lastUpdate: nothing the      *)
(* scheduler or the polling effect reads.  While the time-zone conversion  *)
(* works a clock reading is the exchange's wall clock; when it throws,     *)
(* getEasternTime() hands out the host's own wall clock instead.           *)
(* Two caches stand beside the scheduler: the per-ticker news cache of     *)
(* api/benzingaNewsApi.ts and the localStorage cache of AI summaries of    *)
(* utils/aiSummaryCache.ts; article lists and summaries are opaque values. *)
(***************************************************************************)
EXTENDS Integers, FiniteSets, Sequences, TLC

VARIABLES
    now,            \* the clock: seconds since Thursday 00:00:00 of day 0
    holidays,       \* the holiday calendar: a set of day indices
    holidayThrows,  \* isHoliday() of nyse-holidays throws when called
    status,         \* result of the last direct getMarketStatus() call
    nextChange,     \* result of the last direct getNextMarketStateChange() call
    moduleLoaded,   \* useStocks.ts has been evaluated
    initialState,   \* the module-level initialState of useStocks.ts
    mounted,        \* a component using useStocks is mounted
    mounts,         \* mounts so far
    state,          \* the reducer state of the mounted hook
    sched,          \* useSmartScheduler: timeoutRef, the platform's timers
    polling,        \* Apollo is polling prices (startPolling / stopPolling)
    effectDeps,     \* priceInterval the polling effect last ran with
    renderPending,  \* dispatched state awaits React's render and effects
    lastFired,      \* the wake that fired last, and what it observed
    called,         \* the last direct call of an exported function, and its outcome
    tzThrows,       \* toLocaleString with the exchange's time zone throws
    hostOffset,     \* hours the host's local clock is ahead of the exchange's
    newsCache,      \* benzingaNewsApi.ts: ticker -> cached news entry
    lastNews,       \* the last fetchBenzingaNews call and its outcome
    storage,        \* localStorage: key -> stored string
    lastSummary     \* the last aiSummaryCache call and its outcome

\* The scheduler's variables but the clock.
sessionVars == <<holidays, holidayThrows, status, nextChange, moduleLoaded,
                 initialState, mounted, mounts, state, sched, polling, effectDeps,
                 renderPending, lastFired, called>>

zoneVars == <<tzThrows, hostOffset>>

cacheVars == <<newsCache, lastNews, storage, lastSummary>>

vars == <<now, sessionVars, zoneVars, cacheVars>>

(***************************** bounds **************************************)
\* Days the hook's clock runs through (day 0 is a Thursday).
NumDays == 6
\* Days after today on which a directly called function may find a holiday.
LookAhead == 4
\* Times the consuming component is mounted.
MaxMounts == 2

(************************* MARKET_CONFIG ***********************************)
MARKET_OPEN == 9 * 60 + 30
MARKET_CLOSE == 16 * 60 + 30
FINAL_CLOSE == 16 * 60 + 31
TRADING_DAYS_MIN == 1
TRADING_DAYS_MAX == 5
POLLING_MARKET_OPEN == 60000
POLLING_FINAL_CAPTURE == 60000
NEWS_MARKET_OPEN == 15 * 60 * 1000
NEWS_MARKET_CLOSED == 2 * 60 * 60 * 1000

MarketStatus == {"MARKET_OPEN", "MARKET_CLOSED", "FINAL_CAPTURE", "WEEKEND"}

\* priceInterval: number | null
null == -1

(*************************** Date arithmetic *******************************)
DaySeconds == 24 * 60 * 60

\* Date.getDay(): 0 = Sunday .. 6 = Saturday; day 0 is a Thursday
getDay(t) == ((t \div DaySeconds) + 4) % 7

DayIndex(t) == t \div DaySeconds

\* getHours() * 60 + getMinutes()
MinutesOfDay(t) == (t % DaySeconds) \div 60

\* d.setHours(h, m, 0, 0)
setHours(t, h, m) == DayIndex(t) * DaySeconds + (h * 60 + m) * 60

\* d.setDate(d.getDate() + k)
addDays(t, k) == t + k * DaySeconds

\* a.getTime() - b.getTime(), in milliseconds
diffMs(a, b) == (a - b) * 1000

(**************************** Calendar oracle ******************************)
\* isHoliday(date) of nyse-holidays, when it answers
isHoliday(t) == DayIndex(t) \in holidays

(**************************** marketHours.ts *******************************)
\* Mutant: the fallback hands out the epoch instead of the host's time.
getEasternTime_fallbackEpoch(clock) ==
    IF tzThrows THEN 0 ELSE clock

\* try { new Date(now.toLocaleString("en-US", {timeZone})) } catch { new Date() }
getEasternTime(clock) ==
    IF tzThrows THEN clock + hostOffset * 3600 ELSE clock

\* Mutant: a failing holiday check counts the day as a holiday.
isCurrentDateHoliday_failClosed(clock) ==
    IF holidayThrows THEN TRUE ELSE isHoliday(getEasternTime(clock))

isCurrentDateHoliday(clock) ==
    IF holidayThrows THEN FALSE ELSE isHoliday(getEasternTime(clock))

\* Mutant: Sunday counted as a trading day.
getCurrentMarketInfo_sundayTrades(clock) ==
    LET easternTime == getEasternTime(clock) IN
    [ easternTime |-> easternTime,
      isHoliday |-> isCurrentDateHoliday(clock),
      dayOfWeek |-> getDay(easternTime),
      currentTimeInMinutes |-> MinutesOfDay(easternTime),
      isWeekday |-> getDay(easternTime) >= 0
                    /\ getDay(easternTime) <= TRADING_DAYS_MAX ]

getCurrentMarketInfo(clock) ==
    LET easternTime == getEasternTime(clock) IN
    [ easternTime |-> easternTime,
      isHoliday |-> isCurrentDateHoliday(clock),
      dayOfWeek |-> getDay(easternTime),
      currentTimeInMinutes |-> MinutesOfDay(easternTime),
      isWeekday |-> getDay(easternTime) >= TRADING_DAYS_MIN
                    /\ getDay(easternTime) <= TRADING_DAYS_MAX ]

isMarketOpen(clock) ==
    LET marketInfo == getCurrentMarketInfo(clock) IN
    IF marketInfo.isHoliday THEN FALSE
    ELSE IF ~marketInfo.isWeekday THEN FALSE
    ELSE marketInfo.currentTimeInMinutes >= MARKET_OPEN
         /\ marketInfo.currentTimeInMinutes <= MARKET_CLOSE

\* Mutant: no minute is the final-capture window.
isFinalCaptureWindow_never(clock) == FALSE

isFinalCaptureWindow(clock) ==
    LET easternTime == getEasternTime(clock)
        dayOfWeek == getDay(easternTime)
    IN  IF dayOfWeek < TRADING_DAYS_MIN \/ dayOfWeek > TRADING_DAYS_MAX THEN FALSE
        ELSE MinutesOfDay(easternTime) = FINAL_CLOSE

\* Mutant: the holiday check left out.
getMarketStatus_noHolidayCheck(clock) ==
    LET marketInfo == getCurrentMarketInfo(clock) IN
    IF ~marketInfo.isWeekday THEN "WEEKEND"
    ELSE IF isMarketOpen(clock) THEN "MARKET_OPEN"
    ELSE IF isFinalCaptureWindow(clock) THEN "FINAL_CAPTURE"
    ELSE "MARKET_CLOSED"

\* Mutant: the weekend is tested before the holiday.
getMarketStatus_weekendFirst(clock) ==
    LET marketInfo == getCurrentMarketInfo(clock) IN
    IF ~marketInfo.isWeekday THEN "WEEKEND"
    ELSE IF marketInfo.isHoliday THEN "MARKET_CLOSED"
    ELSE IF isMarketOpen(clock) THEN "MARKET_OPEN"
    ELSE IF isFinalCaptureWindow(clock) THEN "FINAL_CAPTURE"
    ELSE "MARKET_CLOSED"

getMarketStatus(clock) ==
    LET marketInfo == getCurrentMarketInfo(clock) IN
    IF marketInfo.isHoliday THEN "MARKET_CLOSED"
    ELSE IF ~marketInfo.isWeekday THEN "WEEKEND"
    ELSE IF isMarketOpen(clock) THEN "MARKET_OPEN"
    ELSE IF isFinalCaptureWindow(clock) THEN "FINAL_CAPTURE"
    ELSE "MARKET_CLOSED"

\* Mutant: no price polling in the final-capture minute.
getPollingConfig_finalCaptureIdle(clock) ==
    LET st == getMarketStatus(clock) IN
    IF st = "MARKET_OPEN"
    THEN [priceInterval |-> POLLING_MARKET_OPEN, newsInterval |-> NEWS_MARKET_OPEN,
          shouldPoll |-> TRUE]
    ELSE [priceInterval |-> null, newsInterval |-> NEWS_MARKET_CLOSED,
          shouldPoll |-> FALSE]

getPollingConfig(clock) ==
    LET st == getMarketStatus(clock) IN
    IF st = "MARKET_OPEN"
    THEN [priceInterval |-> POLLING_MARKET_OPEN, newsInterval |-> NEWS_MARKET_OPEN,
          shouldPoll |-> TRUE]
    ELSE IF st = "FINAL_CAPTURE"
    THEN [priceInterval |-> POLLING_FINAL_CAPTURE, newsInterval |-> NEWS_MARKET_OPEN,
          shouldPoll |-> TRUE]
    ELSE [priceInterval |-> null, newsInterval |-> NEWS_MARKET_CLOSED,
          shouldPoll |-> FALSE]

\* Mutant: the loop body never runs; the search stops on the day it starts on.
skipWeekendsAndHolidays_noLoop(d) == [threw |-> FALSE, date |-> d]

\* while (d.getDay() === 0 || d.getDay() === 6 || isHoliday(d)) d.setDate(d.getDate() + 1)
\* The result is the day the loop stops on, or that the predicate threw.
RECURSIVE skipWeekendsAndHolidays(_)
skipWeekendsAndHolidays(d) ==
    IF getDay(d) = 0 \/ getDay(d) = 6 THEN skipWeekendsAndHolidays(addDays(d, 1))
    ELSE IF holidayThrows THEN [threw |-> TRUE, date |-> d]
    ELSE IF isHoliday(d) THEN skipWeekendsAndHolidays(addDays(d, 1))
    ELSE [threw |-> FALSE, date |-> d]

Plan(ms, st, text) == [milliseconds |-> ms, nextStatus |-> st, description |-> text]

\* No plan computed yet.
NoPlan == Plan(0, "none", "none")

\* The weekend branch of getNextMarketStateChange.
weekendChange(easternTime, currentDay) ==
    LET daysUntilMonday == IF currentDay = 0 THEN 1 ELSE 2
        nextMonday == setHours(addDays(easternTime, daysUntilMonday), 9, 30)
    IN  Plan(diffMs(nextMonday, easternTime), "MARKET_OPEN",
             "Market opens Monday at 9:30 AM ET")

\* Mutant: the close-minute branch aims at 16:30, the minute it is in.
closeMinuteChange_sameMinute(easternTime) ==
    Plan(diffMs(setHours(easternTime, 16, 30), easternTime), "FINAL_CAPTURE",
         "Final capture window at 4:31 PM ET")

\* Mutant: the close-minute branch always waits a full minute.
closeMinuteChange_fixedMinute(easternTime) ==
    Plan(60000, "FINAL_CAPTURE", "Final capture window at 4:31 PM ET")

\* The "At 4:30 PM (market close)" branch of getNextMarketStateChange.
closeMinuteChange(easternTime) ==
    Plan(diffMs(setHours(easternTime, 16, 31), easternTime), "FINAL_CAPTURE",
         "Final capture window at 4:31 PM ET")

\* Mutant: the fallback predicts MARKET_OPEN instead of the current state.
afterCloseChange_fallbackOpen(easternTime, currentDay, currentStatus) ==
    LET first == addDays(easternTime, IF currentDay = 5 THEN 3 ELSE 1)
        found == skipWeekendsAndHolidays(first)
    IN  IF found.threw
        THEN Plan(60000, "MARKET_OPEN", "Fallback check in 1 minute")
        ELSE Plan(diffMs(setHours(found.date, 9, 30), easternTime), "MARKET_OPEN",
                  "Market opens at 9:30 AM ET")

\* Mutant: the next market day is taken without the skip loop.
afterCloseChange_noSkip(easternTime, currentDay, currentStatus) ==
    LET first == addDays(easternTime, IF currentDay = 5 THEN 3 ELSE 1)
    IN  Plan(diffMs(setHours(first, 9, 30), easternTime), "MARKET_OPEN",
             "Market opens at 9:30 AM ET")

\* The "After market close" branch, with the catch block it can reach.
afterCloseChange(easternTime, currentDay, currentStatus) ==
    LET first == addDays(easternTime, IF currentDay = 5 THEN 3 ELSE 1)
        found == skipWeekendsAndHolidays(first)
        dayName == IF currentDay = 5 THEN "Monday" ELSE "tomorrow"
    IN  IF found.threw
        THEN Plan(60000, currentStatus, "Fallback check in 1 minute")
        ELSE Plan(diffMs(setHours(found.date, 9, 30), easternTime), "MARKET_OPEN",
                  "Market opens " \o dayName \o " at 9:30 AM ET")

\* Mutant: a second call backs off from the plan the call before it returned.
getNextMarketStateChange_backsOff(clock) ==
    LET easternTime == getEasternTime(clock)
        currentDay == getDay(easternTime)
        currentTimeInMinutes == MinutesOfDay(easternTime)
    IN  IF nextChange # NoPlan
        THEN [nextChange EXCEPT !.milliseconds = @ + 60000]
        ELSE IF currentDay = 0 \/ currentDay = 6
        THEN weekendChange(easternTime, currentDay)
        ELSE IF currentTimeInMinutes < MARKET_OPEN
        THEN Plan(diffMs(setHours(easternTime, 9, 30), easternTime), "MARKET_OPEN",
                  "Market opens today at 9:30 AM ET")
        ELSE IF currentTimeInMinutes < MARKET_CLOSE
        THEN Plan(diffMs(setHours(easternTime, 16, 30), easternTime), "FINAL_CAPTURE",
                  "Market closes today at 4:30 PM ET")
        ELSE IF currentTimeInMinutes = MARKET_CLOSE
        THEN closeMinuteChange(easternTime)
        ELSE afterCloseChange(easternTime, currentDay, getMarketStatus(clock))

\* Mutant: the in-session branch predicts MARKET_CLOSED at 16:30.
getNextMarketStateChange_sessionEndsClosed(clock) ==
    LET easternTime == getEasternTime(clock)
        currentDay == getDay(easternTime)
        currentTimeInMinutes == MinutesOfDay(easternTime)
    IN  IF currentDay = 0 \/ currentDay = 6
        THEN weekendChange(easternTime, currentDay)
        ELSE IF currentTimeInMinutes < MARKET_OPEN
        THEN Plan(diffMs(setHours(easternTime, 9, 30), easternTime), "MARKET_OPEN",
                  "Market opens today at 9:30 AM ET")
        ELSE IF currentTimeInMinutes < MARKET_CLOSE
        THEN Plan(diffMs(setHours(easternTime, 16, 30), easternTime), "MARKET_CLOSED",
                  "Market closes today at 4:30 PM ET")
        ELSE IF currentTimeInMinutes = MARKET_CLOSE
        THEN closeMinuteChange(easternTime)
        ELSE afterCloseChange(easternTime, currentDay, getMarketStatus(clock))

getNextMarketStateChange(clock) ==
    LET easternTime == getEasternTime(clock)
        currentStatus == getMarketStatus(clock)
        currentDay == getDay(easternTime)
        currentTimeInMinutes == MinutesOfDay(easternTime)
    IN  IF currentDay = 0 \/ currentDay = 6
        THEN weekendChange(easternTime, currentDay)
        ELSE IF currentTimeInMinutes < MARKET_OPEN
        THEN Plan(diffMs(setHours(easternTime, 9, 30), easternTime), "MARKET_OPEN",
                  "Market opens today at 9:30 AM ET")
        ELSE IF currentTimeInMinutes >= MARKET_OPEN
                /\ currentTimeInMinutes < MARKET_CLOSE
        THEN Plan(diffMs(setHours(easternTime, 16, 30), easternTime), "FINAL_CAPTURE",
                  "Market closes today at 4:30 PM ET")
        ELSE IF currentTimeInMinutes = MARKET_CLOSE
        THEN closeMinuteChange(easternTime)
        ELSE afterCloseChange(easternTime, currentDay, currentStatus)

getTimeUntilMarketOpen(clock) ==
    LET easternTime == getEasternTime(clock)
        currentTimeInMinutes == MinutesOfDay(easternTime)
        today930 == setHours(easternTime, 9, 30)
        moves == currentTimeInMinutes > MARKET_CLOSE
                 \/ getDay(easternTime) = 0 \/ getDay(easternTime) = 6
                 \/ getCurrentMarketInfo(clock).isHoliday
        found == IF moves THEN skipWeekendsAndHolidays(addDays(today930, 1))
                          ELSE [threw |-> FALSE, date |-> today930]
        diffMinutes == diffMs(setHours(found.date, 9, 30), easternTime) \div (1000 * 60)
    IN  IF isMarketOpen(clock)
        THEN [threw |-> FALSE, days |-> 0, hours |-> 0, minutes |-> 0, totalMinutes |-> 0]
        ELSE IF found.threw
        THEN [threw |-> TRUE, days |-> 0, hours |-> 0, minutes |-> 0, totalMinutes |-> 0]
        ELSE [threw |-> FALSE,
              days |-> diffMinutes \div (24 * 60),
              hours |-> (diffMinutes % (24 * 60)) \div 60,
              minutes |-> diffMinutes % 60,
              totalMinutes |-> diffMinutes]

\* threw: getTimeUntilMarketOpen let the holiday predicate's error escape.
getMillisecondsUntilMarketOpen(clock) ==
    LET timeUntil == getTimeUntilMarketOpen(clock) IN
    [threw |-> timeUntil.threw, value |-> timeUntil.totalMinutes * 60 * 1000]

\* threw: now.toLocaleTimeString('en-US', { timeZone }) has no try around it.
getDataStatus(clock) ==
    LET st == getMarketStatus(clock) IN
    IF st = "MARKET_OPEN" THEN [threw |-> tzThrows, status |-> "LIVE", isLive |-> TRUE]
    ELSE IF st = "FINAL_CAPTURE"
    THEN [threw |-> tzThrows, status |-> "UPDATING", isLive |-> TRUE]
    ELSE [threw |-> tzThrows, status |-> "CLOSED", isLive |-> FALSE]

\* getMarketStatus, getPollingConfig, getDataStatus and getTimeUntilMarketOpen
\* each read the clock for themselves: clock, clock2, clock3 and clock4 are
\* their readings, in this order.
\* threw: getDataStatus or getTimeUntilMarketOpen let an error escape.
getMarketState(clock, clock2, clock3, clock4) ==
    LET st == getMarketStatus(clock)
        dataStatus == getDataStatus(clock3)
        timeUntilOpen == getTimeUntilMarketOpen(clock4)
    IN  [ threw |-> dataStatus.threw \/ timeUntilOpen.threw,
          status |-> st,
          isOpen |-> (st = "MARKET_OPEN" \/ st = "FINAL_CAPTURE"),
          pollingConfig |-> getPollingConfig(clock2),
          dataStatus |-> [status |-> dataStatus.status, isLive |-> dataStatus.isLive] ]

(***************************** useStocks.ts ********************************)
\* useRef<NodeJS.Timeout | null>(null); timer ids start at 1
NoTimer == 0

stocksReducer(st, action) ==
    IF action.type = "UPDATE_MARKET_STATE" THEN [st EXCEPT !.marketState = action.payload]
    ELSE IF action.type = "SET_SMART_TIMEOUT" THEN [st EXCEPT !.smartTimeoutId = action.payload]
    ELSE IF action.type = "SET_LAST_UPDATE" THEN [st EXCEPT !.lastUpdateTime = action.payload]
    ELSE IF action.type = "CLEAR_SMART_TIMEOUT" THEN [st EXCEPT !.smartTimeoutId = NoTimer]
    ELSE st

\* The reducer state before useStocks.ts has been evaluated.
NotLoaded ==
    [marketState |-> [status |-> "none"], smartTimeoutId |-> NoTimer, lastUpdateTime |-> null]

\* const initialState = { marketState: getMarketState(), ... }
makeInitialState(clock) ==
    [marketState |-> getMarketState(clock, clock, clock, clock), smartTimeoutId |-> NoTimer, lastUpdateTime |-> null]

\* clearTimeout(id): the platform drops the timer if it is still pending.
\* (A timer that cannot fire any more leaves the history set too.)
clearTimeout(s, id) ==
    [s EXCEPT !.timers = {t \in @ : t.id # id}, !.revoked = @ \ {id}]

\* The id setTimeout returns: one no pending timer and no held reference has.
freshTimerId(s) ==
    CHOOSE i \in 1..(Cardinality(s.timers) + 2) :
        /\ i # s.timeoutRef
        /\ \A t \in s.timers : t.id # i
        /\ \A j \in 1..(i - 1) : j = s.timeoutRef \/ \E t \in s.timers : t.id = j

\* setTimeout(callback, nextChange.milliseconds): the platform holds the
\* timer, armed at this clock reading, until it is due.
setTimeout(s, clock, plan) ==
    [s EXCEPT !.timers = @ \cup {[id |-> freshTimerId(s),
                                   armedAt |-> clock,
                                   nextChange |-> plan]}]

\* The instant a timer comes due.
due(t) == t.armedAt + t.nextChange.milliseconds \div 1000

\* History: the wakes that were pending when a cancellation ran.
noteRevoked(s) == [s EXCEPT !.revoked = @ \cup {t.id : t \in s.timers}]

\* A hook instance h is [state |-> reducer state, sched |-> scheduler state].
scheduleNextCheck(h, clock) ==
    LET s1 == IF h.sched.timeoutRef # NoTimer
              THEN [clearTimeout(h.sched, h.sched.timeoutRef) EXCEPT !.timeoutRef = NoTimer]
              ELSE h.sched
        plan == getNextMarketStateChange(clock)
    IN  IF plan.milliseconds > 0
        THEN [state |-> stocksReducer(h.state, [type |-> "SET_SMART_TIMEOUT",
                                                payload |-> freshTimerId(s1)]),
              sched |-> [setTimeout(s1, clock, plan) EXCEPT !.timeoutRef = freshTimerId(s1)]]
        ELSE [state |-> h.state, sched |-> s1]

\* Mutant: the reference is dropped but the timer is not cancelled.
clearSchedule_keepsTimer(h) ==
    IF h.sched.timeoutRef # NoTimer
    THEN [state |-> stocksReducer(h.state, [type |-> "CLEAR_SMART_TIMEOUT"]),
          sched |-> [noteRevoked(h.sched) EXCEPT !.timeoutRef = NoTimer]]
    ELSE [state |-> h.state, sched |-> noteRevoked(h.sched)]

\* Mutant: the first call only drops the reference; a call that finds no
\* reference cancels every pending timer.
clearSchedule_twoPhase(h) ==
    IF h.sched.timeoutRef # NoTimer
    THEN [state |-> stocksReducer(h.state, [type |-> "CLEAR_SMART_TIMEOUT"]),
          sched |-> [noteRevoked(h.sched) EXCEPT !.timeoutRef = NoTimer]]
    ELSE [state |-> h.state, sched |-> [noteRevoked(h.sched) EXCEPT !.timers = {}]]

clearSchedule(h) ==
    IF h.sched.timeoutRef # NoTimer
    THEN [state |-> stocksReducer(h.state, [type |-> "CLEAR_SMART_TIMEOUT"]),
          sched |-> [clearTimeout(noteRevoked(h.sched), h.sched.timeoutRef)
                        EXCEPT !.timeoutRef = NoTimer]]
    ELSE [state |-> h.state, sched |-> noteRevoked(h.sched)]

\* The cleanup of useSmartScheduler's own effect (runs on unmount).
schedulerCleanup(s) ==
    IF s.timeoutRef # NoTimer THEN clearTimeout(noteRevoked(s), s.timeoutRef)
    ELSE noteRevoked(s)

\* updateMarketStatus: getMarketState() throwing leaves nothing dispatched.
updateMarketStatus(h, clock) ==
    LET newMarketState == getMarketState(clock, clock, clock, clock) IN
    IF newMarketState.threw THEN [threw |-> TRUE, h |-> h]
    ELSE [threw |-> FALSE,
          h |-> [h EXCEPT !.state =
                    stocksReducer(stocksReducer(@, [type |-> "UPDATE_MARKET_STATE",
                                                    payload |-> newMarketState]),
                                  [type |-> "SET_LAST_UPDATE", payload |-> clock])]]

\* The callback given to setTimeout in scheduleNextCheck.
timerCallback(h, clock) ==
    LET u == updateMarketStatus(h, clock) IN
    IF u.threw THEN u
    ELSE [threw |-> FALSE,
          h |-> [scheduleNextCheck(u.h, clock) EXCEPT
                    !.state = stocksReducer(@, [type |-> "CLEAR_SMART_TIMEOUT"])]]

\* The cleanup of the polling effect: clearSchedule(); stopPolling().
pollingEffectCleanup(h) == clearSchedule(h)

\* The body of the polling effect, after start/stopPolling: scheduleNextCheck().
pollingEffectBody(h, clock) == scheduleNextCheck(h, clock)

\* startPolling(priceInterval) or stopPolling(), by the effect's condition.
pollsPrices(priceInterval) == priceInterval # null /\ priceInterval > 0

\* Mutant: unmounting cancels nothing.
unmountCleanup_none(h) == noteRevoked(h.sched)

\* Unmount: the polling effect's cleanup, then the scheduler's.
unmountCleanup(h) == schedulerCleanup(pollingEffectCleanup(h).sched)

(****************************** the clock **********************************)
Horizon == NumDays * DaySeconds

\* Seconds of the day at which the model samples the clock between wakes.
TickOffsets ==
    { 0,
      9 * 3600 + 29 * 60 + 59, 9 * 3600 + 30 * 60,
      16 * 3600 + 29 * 60 + 59, 16 * 3600 + 30 * 60, 16 * 3600 + 31 * 60,
      16 * 3600 + 32 * 60 }

Instants == {d * DaySeconds + o : d \in 0..(NumDays - 1), o \in TickOffsets}

Min(S) == CHOOSE x \in S : \A y \in S : x <= y

\* Calendars with at most one holiday among the days first..last.
Calendars(first, last) == {{}} \cup {{d} : d \in first..last}

NoFire == [predicted |-> "none", observed |-> "none", threw |-> FALSE, revoked |-> FALSE]
NoCall == [fn |-> "none", threw |-> FALSE, value |-> "none", previous |-> "none"]

(************************** benzingaNewsApi.ts *****************************)
NEWS_CACHE_DURATION == 15 * 60 * 1000
SIGNIFICANT_CHANGE_THRESHOLD == 2

Tickers == {"AAPL", "MSFT"}
\* Prices a caller passes; 0 is the parameter's default.
Prices == {0, 100, 102}
\* What the news API may answer with: one of two article lists.
Articles == {"articles1", "articles2"}
\* The list simulateBenzingaNews builds.
SimulatedArticles == "simulated"
EmptyList == "[]"

\* Date.now(), in milliseconds
DateNow(clock) == clock * 1000

Abs(x) == IF x < 0 THEN 0 - x ELSE x

\* newsCache.get(ticker) === undefined
NoEntry == [exists |-> FALSE, data |-> EmptyList, timestamp |-> 0, lastPrice |-> 0]

Entry(data, timestamp, lastPrice) ==
    [exists |-> TRUE, data |-> data, timestamp |-> timestamp, lastPrice |-> lastPrice]

\* Math.abs((currentPrice - lastPrice) / lastPrice) * 100 >= threshold
shouldRefreshNews(cache, ticker, currentPrice, clock) ==
    LET cached == cache[ticker] IN
    IF ~cached.exists THEN TRUE
    ELSE IF DateNow(clock) - cached.timestamp > NEWS_CACHE_DURATION THEN TRUE
    ELSE IF cached.lastPrice > 0
            /\ Abs(currentPrice - cached.lastPrice) * 100
                  >= SIGNIFICANT_CHANGE_THRESHOLD * cached.lastPrice
    THEN TRUE
    ELSE FALSE

\* answer: the article list of the first URL format that succeeds, or "fail"
\* when every format fails and the function throws.
fetchBenzingaRestAPI(cache, ticker, currentPrice, clock, answer) ==
    IF answer = "fail"
    THEN [threw |-> TRUE, cache |-> cache, returned |-> EmptyList]
    ELSE [threw |-> FALSE,
          cache |-> [cache EXCEPT ![ticker] = Entry(answer, DateNow(clock), currentPrice)],
          returned |-> answer]

simulateBenzingaNews(cache, ticker, clock) ==
    [threw |-> FALSE,
     cache |-> [cache EXCEPT ![ticker] = Entry(SimulatedArticles, DateNow(clock), 0)],
     returned |-> SimulatedArticles]

\* Mutant: the cache is consulted even when a refresh is forced.
fetchBenzingaNews_ignoresForce(cache, ticker, currentPrice, forceRefresh, clock, apiKey, answer) ==
    IF ~shouldRefreshNews(cache, ticker, currentPrice, clock)
    THEN [fetched |-> FALSE, failed |-> FALSE, cache |-> cache,
          returned |-> cache[ticker].data]
    ELSE LET r == IF apiKey
                  THEN fetchBenzingaRestAPI(cache, ticker, currentPrice, clock, answer)
                  ELSE simulateBenzingaNews(cache, ticker, clock)
         IN  [fetched |-> TRUE, failed |-> r.threw, cache |-> r.cache,
              returned |-> IF r.threw THEN cache[ticker].data ELSE r.returned]

\* fetched: the call went past the cache check; failed: the fetch threw and
\* the catch block answered.
fetchBenzingaNews(cache, ticker, currentPrice, forceRefresh, clock, apiKey, answer) ==
    IF ~forceRefresh /\ ~shouldRefreshNews(cache, ticker, currentPrice, clock)
       /\ cache[ticker].exists
    THEN [fetched |-> FALSE, failed |-> FALSE, cache |-> cache,
          returned |-> cache[ticker].data]
    ELSE LET r == IF apiKey
                  THEN fetchBenzingaRestAPI(cache, ticker, currentPrice, clock, answer)
                  ELSE simulateBenzingaNews(cache, ticker, clock)
         IN  [fetched |-> TRUE, failed |-> r.threw, cache |-> r.cache,
              returned |-> IF r.threw THEN cache[ticker].data ELSE r.returned]

\* No fetchBenzingaNews call yet; apiKey: process.env.BENZINGA_API_KEY is set.
NoNewsCall(apiKey) ==
    [apiKey |-> apiKey, fn |-> "none", ticker |-> "none", price |-> 0, force |-> FALSE,
     before |-> NoEntry, fetched |-> FALSE, failed |-> FALSE, returned |-> EmptyList]

(*************************** aiSummaryCache.ts *****************************)
CACHE_PREFIX == "aiSummary:"
CACHE_DURATION == 3 * 24 * 60 * 60 * 1000

\* URLs are character sequences: an address and, after a "?", a query string
\* (which may hold a further "?").
Addresses == { <<"a">>, <<"a", "b">> }
Queries == { <<>>, <<"x", "?", "y">> }

Url(address, query) ==
    IF query = <<>> THEN address ELSE address \o <<"?">> \o query

Urls == {Url(a, q) : a \in Addresses, q \in Queries}

Summaries == {"summary1", "summary2"}
\* getCachedSummary's null
NoSummary == "null"

\* url.split('?')[0]
normalizeUrl(url) ==
    LET marks == {i \in 1..Len(url) : url[i] = "?"} IN
    IF marks = {} THEN url ELSE SubSeq(url, 1, Min(marks) - 1)

\* CACHE_PREFIX + encodeURIComponent(normalizeUrl(url)); encodeURIComponent
\* leaves the letters of these URLs as they are.
getCacheKey(url) == <<CACHE_PREFIX>> \o normalizeUrl(url)

Keys == {getCacheKey(u) : u \in Urls}

\* localStorage.getItem(key) === null
NoItem == [kind |-> "none", summary |-> NoSummary, timestamp |-> 0]
\* JSON.stringify({ summary, timestamp })
Item(summary, timestamp) == [kind |-> "json", summary |-> summary, timestamp |-> timestamp]
\* A stored string JSON.parse throws on.
Garbage == [kind |-> "garbage", summary |-> NoSummary, timestamp |-> 0]
\* The stored string "": JSON.parse would throw on it, but !cached is true.
EmptyString == [kind |-> "empty", summary |-> NoSummary, timestamp |-> 0]

\* Mutant: an expired or unreadable entry is left in storage.
getCachedSummary_keepsExpired(store, url, clock) ==
    LET key == getCacheKey(url)
        cached == store[key]
    IN  IF cached.kind = "json" /\ DateNow(clock) - cached.timestamp < CACHE_DURATION
        THEN [result |-> cached.summary, store |-> store]
        ELSE [result |-> NoSummary, store |-> store]

getCachedSummary(store, url, clock) ==
    LET key == getCacheKey(url)
        cached == store[key]
    IN  IF cached.kind = "none" \/ cached.kind = "empty"
        THEN [result |-> NoSummary, store |-> store]
        ELSE IF cached.kind = "garbage"
        THEN [result |-> NoSummary, store |-> [store EXCEPT ![key] = NoItem]]
        ELSE IF DateNow(clock) - cached.timestamp < CACHE_DURATION
        THEN [result |-> cached.summary, store |-> store]
        ELSE [result |-> NoSummary, store |-> [store EXCEPT ![key] = NoItem]]

setCachedSummary(store, url, summary, clock) ==
    [store EXCEPT ![getCacheKey(url)] = Item(summary, DateNow(clock))]

\* History of an address: what was last written for it and when, and whether
\* the entry is still as written, was overwritten by something that is no
\* JSON, or has been answered null by a read.
NoWrite == [made |-> "never", summary |-> NoSummary, at |-> 0]

\* before: the history of the call's address when the call began.
NoSummaryCall ==
    [fn |-> "none", url |-> <<>>, result |-> NoSummary, address |-> <<>>,
     before |-> NoWrite, written |-> [a \in Addresses |-> NoWrite]]

CachesInit ==
    /\ newsCache = [t \in Tickers |-> NoEntry]
    /\ lastNews = NoNewsCall(FALSE)
    /\ storage = [k \in Keys |-> NoItem]
    /\ lastSummary = NoSummaryCall

(****************************** the hook ***********************************)
HookInit ==
    /\ status = "none"
    /\ nextChange = NoPlan
    /\ moduleLoaded = FALSE
    /\ initialState = NotLoaded
    /\ mounted = FALSE
    /\ mounts = 0
    /\ state = NotLoaded
    /\ sched = [timeoutRef |-> NoTimer, timers |-> {}, revoked |-> {}]
    /\ polling = FALSE
    /\ effectDeps = <<>>
    /\ renderPending = FALSE
    /\ lastFired = NoFire
    /\ called = NoCall

Init ==
    /\ now = 0
    /\ holidays \in Calendars(0, NumDays - 1)
    /\ holidayThrows = FALSE
    /\ tzThrows = FALSE
    /\ hostOffset = 0
    /\ HookInit
    /\ CachesInit

\* The bundle is evaluated: initialState is computed once, at this instant.
LoadModule ==
    /\ UNCHANGED <<called, zoneVars, cacheVars>>
    /\ ~moduleLoaded
    /\ ~getMarketState(now, now, now, now).threw
    /\ moduleLoaded' = TRUE
    /\ initialState' = makeInitialState(now)
    /\ UNCHANGED <<now, holidays, holidayThrows, status, nextChange, mounted, mounts,
                   state, sched, polling, effectDeps, renderPending, lastFired>>

\* useReducer(stocksReducer, initialState), useRef(null); effects follow.
Mount ==
    /\ UNCHANGED <<called, zoneVars, cacheVars>>
    /\ moduleLoaded /\ ~mounted /\ mounts < MaxMounts
    /\ mounted' = TRUE
    /\ mounts' = mounts + 1
    /\ state' = initialState
    /\ sched' = [sched EXCEPT !.timeoutRef = NoTimer]
    /\ effectDeps' = <<>>
    /\ renderPending' = TRUE
    /\ UNCHANGED <<now, holidays, holidayThrows, status, nextChange, moduleLoaded,
                   initialState, polling, lastFired>>

\* React renders and flushes effects: the polling effect runs when its
\* priceInterval dependency changed (cleanup first, unless it is the first run).
CommitEffects ==
    /\ UNCHANGED <<called, zoneVars, cacheVars>>
    /\ mounted /\ renderPending
    /\ renderPending' = FALSE
    /\ LET priceInterval == state.marketState.pollingConfig.priceInterval
           h0 == [state |-> state, sched |-> sched]
           h1 == IF effectDeps = <<>> THEN h0 ELSE pollingEffectCleanup(h0)
           h2 == pollingEffectBody(h1, now)
       IN  IF effectDeps = <<priceInterval>>
           THEN UNCHANGED <<state, sched, polling, effectDeps>>
           ELSE /\ state' = h2.state
                /\ sched' = h2.sched
                /\ polling' = pollsPrices(priceInterval)
                /\ effectDeps' = <<priceInterval>>
    /\ UNCHANGED <<now, holidays, holidayThrows, status, nextChange, moduleLoaded,
                   initialState, mounted, mounts, lastFired>>

\* A pending timer comes due and the platform runs its callback.
FireWake ==
    /\ UNCHANGED <<called, zoneVars, cacheVars>>
    /\ ~renderPending
    /\ \E t \in sched.timers :
          /\ due(t) = now
          /\ LET r == timerCallback([state |-> state,
                                     sched |-> [sched EXCEPT !.timers = @ \ {t},
                                                             !.revoked = @ \ {t.id}]], now)
             IN  /\ state' = r.h.state
                 /\ sched' = r.h.sched
                 /\ renderPending' = (mounted /\ ~r.threw)
                 /\ lastFired' = [predicted |-> t.nextChange.nextStatus,
                                  observed |-> IF r.threw THEN "none"
                                               ELSE r.h.state.marketState.status,
                                  threw |-> r.threw,
                                  revoked |-> t.id \in sched.revoked]
    /\ UNCHANGED <<now, holidays, holidayThrows, status, nextChange, moduleLoaded,
                   initialState, mounted, mounts, polling, effectDeps>>

Unmount ==
    /\ UNCHANGED <<called, zoneVars, cacheVars>>
    /\ mounted /\ ~renderPending
    /\ mounted' = FALSE
    /\ sched' = unmountCleanup([state |-> state, sched |-> sched])
    /\ state' = initialState
    /\ polling' = FALSE
    /\ effectDeps' = <<>>
    /\ UNCHANGED <<now, holidays, holidayThrows, status, nextChange, moduleLoaded,
                   initialState, mounts, renderPending, lastFired>>

\* Time passes to the next sampled instant, or to the next wake if sooner;
\* a wake that is due fires before the clock moves on.
Tick ==
    /\ UNCHANGED <<called, zoneVars, cacheVars>>
    /\ ~renderPending
    /\ \A t \in sched.timers : due(t) # now
    /\ LET next == {i \in Instants : i > now}
                   \cup {due(t) : t \in {u \in sched.timers : due(u) > now}}
       IN  /\ next # {}
           /\ Min(next) < Horizon
           /\ now' = Min(next)
    /\ lastFired' = NoFire
    /\ UNCHANGED <<holidays, holidayThrows, status, nextChange, moduleLoaded,
                   initialState, mounted, mounts, state, sched, polling, effectDeps,
                   renderPending>>

\* The holiday library starts to throw.
HolidayOutage ==
    /\ UNCHANGED <<called, zoneVars, cacheVars>>
    /\ ~renderPending /\ ~holidayThrows
    /\ holidayThrows' = TRUE
    /\ UNCHANGED <<now, holidays, status, nextChange, moduleLoaded, initialState,
                   mounted, mounts, state, sched, polling, effectDeps, renderPending,
                   lastFired>>

\* The holiday library answers again.
HolidayRecovery ==
    /\ UNCHANGED <<called, zoneVars, cacheVars>>
    /\ ~renderPending /\ holidayThrows
    /\ holidayThrows' = FALSE
    /\ UNCHANGED <<now, holidays, status, nextChange, moduleLoaded, initialState,
                   mounted, mounts, state, sched, polling, effectDeps, renderPending,
                   lastFired>>

Next ==
    \/ LoadModule
    \/ Mount
    \/ CommitEffects
    \/ FireWake
    \/ Unmount
    \/ Tick
    \/ HolidayOutage
    \/ HolidayRecovery

Spec == Init /\ [][Next]_vars

\* The same hook while the holiday library never fails.
NextHealthy ==
    \/ LoadModule
    \/ Mount
    \/ CommitEffects
    \/ FireWake
    \/ Unmount
    \/ Tick

SpecHealthy == Init /\ [][NextHealthy]_vars

(******************* the functions, called directly ************************)
\* Hours a host's local clock may be ahead of the exchange's (west: behind).
HostOffsets == {0 - 3, 5}

\* Clock readings: every minute of every day of a week, at its first and
\* its last second.
ClockReadings ==
    {(d * 24 * 60 + m) * 60 + sec : d \in 0..6, m \in 0..(24 * 60 - 1), sec \in {0, 59}}

InitCalc ==
    /\ now \in ClockReadings
    /\ holidayThrows \in BOOLEAN
    /\ tzThrows \in IF holidayThrows THEN {FALSE} ELSE BOOLEAN
    /\ hostOffset \in IF tzThrows THEN HostOffsets ELSE {0}
    /\ holidays \in IF tzThrows THEN {{}}
                    ELSE Calendars(DayIndex(now),
                                   DayIndex(now) + IF holidayThrows THEN 0 ELSE LookAhead)
    /\ HookInit
    /\ CachesInit

\* Each behaviour draws a clock reading and a calendar and calls one function
\* on them; getNextMarketStateChange may be called a second time.
CallGetMarketStatus ==
    /\ called.fn = "none"
    /\ status' = getMarketStatus(now)
    /\ nextChange' = NoPlan
    /\ called' = [NoCall EXCEPT !.fn = "getMarketStatus", !.value = getMarketStatus(now)]
    /\ UNCHANGED <<now, holidays, holidayThrows, moduleLoaded, initialState, mounted,
                   mounts, state, sched, polling, effectDeps, renderPending, lastFired>>
    /\ UNCHANGED <<zoneVars, cacheVars>>

\* previous: what the call before this one returned, if it was the same function.
CallGetNextMarketStateChange ==
    /\ called.fn = "none" \/ (called.fn = "getNextMarketStateChange" /\ called.previous = NoPlan)
    /\ nextChange' = getNextMarketStateChange(now)
    /\ status' = "none"
    /\ called' = [NoCall EXCEPT !.fn = "getNextMarketStateChange",
                                !.value = getNextMarketStateChange(now),
                                !.previous = nextChange]
    /\ UNCHANGED <<now, holidays, holidayThrows, moduleLoaded, initialState, mounted,
                   mounts, state, sched, polling, effectDeps, renderPending, lastFired>>
    /\ UNCHANGED <<zoneVars, cacheVars>>

CallGetPollingConfig ==
    /\ called.fn = "none"
    /\ called' = [NoCall EXCEPT !.fn = "getPollingConfig", !.value = getPollingConfig(now)]
    /\ status' = "none"
    /\ nextChange' = NoPlan
    /\ UNCHANGED <<now, holidays, holidayThrows, moduleLoaded, initialState, mounted,
                   mounts, state, sched, polling, effectDeps, renderPending, lastFired>>
    /\ UNCHANGED <<zoneVars, cacheVars>>

\* The readings of one call are at most a second apart and never go back.
CallGetMarketState ==
    /\ called.fn = "none"
    /\ \E clock2 \in {now, now + 1} : \E clock3 \in {clock2, now + 1} :
       \E clock4 \in {clock3, now + 1} :
          LET r == getMarketState(now, clock2, clock3, clock4) IN
          called' = [NoCall EXCEPT !.fn = "getMarketState",
                                   !.threw = r.threw,
                                   !.value = r]
    /\ status' = "none"
    /\ nextChange' = NoPlan
    /\ UNCHANGED <<now, holidays, holidayThrows, moduleLoaded, initialState, mounted,
                   mounts, state, sched, polling, effectDeps, renderPending, lastFired>>
    /\ UNCHANGED <<zoneVars, cacheVars>>

CallGetMillisecondsUntilMarketOpen ==
    /\ called.fn = "none"
    /\ LET r == getMillisecondsUntilMarketOpen(now) IN
       called' = [NoCall EXCEPT !.fn = "getMillisecondsUntilMarketOpen",
                                !.threw = r.threw,
                                !.value = IF r.threw THEN null ELSE r.value]
    /\ status' = "none"
    /\ nextChange' = NoPlan
    /\ UNCHANGED <<now, holidays, holidayThrows, moduleLoaded, initialState, mounted,
                   mounts, state, sched, polling, effectDeps, renderPending, lastFired>>
    /\ UNCHANGED <<zoneVars, cacheVars>>

NextCalc ==
    \/ CallGetMarketStatus
    \/ CallGetNextMarketStateChange
    \/ CallGetPollingConfig
    \/ CallGetMarketState
    \/ CallGetMillisecondsUntilMarketOpen

SpecCalc == InitCalc /\ [][NextCalc]_vars

(***************************** the news cache ******************************)
NewsPeriods == 2

\* The clock is sampled at every multiple of the cache duration and one second
\* after it.
NewsInstants ==
    {k * (NEWS_CACHE_DURATION \div 1000) + j : k \in 0..NewsPeriods, j \in {0, 1}}

\* The server starts with an empty cache, with or without BENZINGA_API_KEY.
InitNews ==
    /\ now = 0
    /\ holidays = {}
    /\ holidayThrows = FALSE
    /\ tzThrows = FALSE
    /\ hostOffset = 0
    /\ HookInit
    /\ newsCache = [t \in Tickers |-> NoEntry]
    /\ lastNews \in {NoNewsCall(apiKey) : apiKey \in BOOLEAN}
    /\ storage = [k \in Keys |-> NoItem]
    /\ lastSummary = NoSummaryCall

\* A resolver calls fetchBenzingaNews(ticker, currentPrice, forceRefresh);
\* before: the ticker's entry when the call began.
FetchBenzingaNews ==
    /\ \E ticker \in Tickers, currentPrice \in Prices, forceRefresh \in BOOLEAN,
          answer \in Articles \cup {"fail"} :
          LET r == fetchBenzingaNews(newsCache, ticker, currentPrice, forceRefresh, now,
                                     lastNews.apiKey, answer)
          IN  /\ newsCache' = r.cache
              /\ lastNews' = [apiKey |-> lastNews.apiKey, fn |-> "fetchBenzingaNews",
                              ticker |-> ticker, price |-> currentPrice,
                              force |-> forceRefresh, before |-> newsCache[ticker],
                              fetched |-> r.fetched, failed |-> r.failed,
                              returned |-> r.returned]
    /\ UNCHANGED <<now, sessionVars, zoneVars, storage, lastSummary>>

NewsTick ==
    /\ \E i \in NewsInstants : i > now
    /\ now' = Min({i \in NewsInstants : i > now})
    /\ lastNews' = NoNewsCall(lastNews.apiKey)
    /\ UNCHANGED <<sessionVars, zoneVars, newsCache, storage, lastSummary>>

NextNews ==
    \/ FetchBenzingaNews
    \/ NewsTick

SpecNews == InitNews /\ [][NextNews]_vars

(************************** the AI summary cache ***************************)
SummaryDays == 4

\* The clock is sampled at the first second of every day, and one second
\* before the last sample.
SummaryInstants ==
    {d * DaySeconds : d \in 0..(SummaryDays - 1)}
        \cup {(SummaryDays - 1) * DaySeconds - 1}

\* The page starts with an empty localStorage.
InitSummary ==
    /\ now = 0
    /\ holidays = {}
    /\ holidayThrows = FALSE
    /\ tzThrows = FALSE
    /\ hostOffset = 0
    /\ HookInit
    /\ CachesInit

SetCachedSummary ==
    /\ \E address \in Addresses, query \in Queries, summary \in Summaries :
          LET url == Url(address, query) IN
          /\ storage' = setCachedSummary(storage, url, summary, now)
          /\ lastSummary' =
                [fn |-> "setCachedSummary", url |-> url, result |-> NoSummary,
                 address |-> address, before |-> lastSummary.written[address],
                 written |-> [lastSummary.written EXCEPT ![address] =
                                 [made |-> "written", summary |-> summary, at |-> now]]]
    /\ UNCHANGED <<now, sessionVars, zoneVars, newsCache, lastNews>>

\* A read that answers null leaves the address's history at "answered null".
GetCachedSummary ==
    /\ \E address \in Addresses, query \in Queries :
          LET url == Url(address, query)
              r == getCachedSummary(storage, url, now)
          IN  /\ storage' = r.store
              /\ lastSummary' =
                    [fn |-> "getCachedSummary", url |-> url, result |-> r.result,
                     address |-> address, before |-> lastSummary.written[address],
                     written |-> IF r.result = NoSummary
                                    /\ lastSummary.written[address].made # "never"
                                 THEN [lastSummary.written EXCEPT
                                          ![address].made = "answered null"]
                                 ELSE lastSummary.written]
    /\ UNCHANGED <<now, sessionVars, zoneVars, newsCache, lastNews>>

\* Something else on the page overwrites a written entry with a string that
\* is no JSON: some text, or the empty string.
Corrupt ==
    /\ \E address \in Addresses, value \in {Garbage, EmptyString} :
          /\ storage[getCacheKey(address)].kind = "json"
          /\ storage' = [storage EXCEPT ![getCacheKey(address)] = value]
          /\ lastSummary' =
                [fn |-> "corrupt", url |-> address, result |-> NoSummary,
                 address |-> address, before |-> lastSummary.written[address],
                 written |-> [lastSummary.written EXCEPT ![address].made = value.kind]]
    /\ UNCHANGED <<now, sessionVars, zoneVars, newsCache, lastNews>>

SummaryTick ==
    /\ \E i \in SummaryInstants : i > now
    /\ now' = Min({i \in SummaryInstants : i > now})
    /\ lastSummary' = [NoSummaryCall EXCEPT !.written = lastSummary.written]
    /\ UNCHANGED <<sessionVars, zoneVars, newsCache, lastNews, storage>>

NextSummary ==
    \/ SetCachedSummary
    \/ GetCachedSummary
    \/ Corrupt
    \/ SummaryTick

SpecSummary == InitSummary /\ [][NextSummary]_vars

(******************************* claims ************************************)
\* The claims on the session calendar read the clock in the exchange's zone:
\* they are stated for the readings the zone conversion succeeded on (C22
\* covers the others).
IsWeekend(t) == getDay(t) = 0 \/ getDay(t) = 6

\* The holiday predicate answers true for the day of t.
HolidayFlagged(t) == ~holidayThrows /\ DayIndex(t) \in holidays

\* C3: every plan getNextMarketStateChange returns has milliseconds > 0.
C3_PositiveDuration ==
    nextChange # NoPlan => nextChange.milliseconds > 0

\* C3 witness: a plan made in the last second of the close minute (16:30:59).
C3_Witness ==
    /\ ~tzThrows
    /\ nextChange # NoPlan
    /\ MinutesOfDay(now) = MARKET_CLOSE
    /\ ~IsWeekend(now)
    /\ nextChange.milliseconds = 1000

\* C8 (as claimed): on a trading weekday that is no holiday, getMarketStatus is
\* MARKET_OPEN exactly for 570 <= m < 990, FINAL_CAPTURE exactly for m = 991,
\* MARKET_CLOSED for every other minute m, 990 included.
C8_ExclusiveClose ==
    (status # "none" /\ ~tzThrows /\ ~IsWeekend(now) /\ ~HolidayFlagged(now)) =>
        status = IF MinutesOfDay(now) >= MARKET_OPEN /\ MinutesOfDay(now) < MARKET_CLOSE
                 THEN "MARKET_OPEN"
                 ELSE IF MinutesOfDay(now) = FINAL_CLOSE THEN "FINAL_CAPTURE"
                 ELSE "MARKET_CLOSED"

\* C9: on a weekday the holiday predicate flags, getMarketStatus is
\* MARKET_CLOSED at every time of day.
C9_HolidayWeekdayClosed ==
    (status # "none" /\ ~IsWeekend(now) /\ HolidayFlagged(now)) =>
        status = "MARKET_CLOSED"

\* C9 witness: a flagged weekday, classified inside the final-capture minute.
C9_Witness ==
    /\ ~tzThrows
    /\ status = "MARKET_CLOSED"
    /\ ~IsWeekend(now)
    /\ HolidayFlagged(now)
    /\ MinutesOfDay(now) = FINAL_CLOSE

\* C10 (as claimed): on every Saturday and Sunday getMarketStatus is WEEKEND.
C10_WeekendAlways ==
    (status # "none" /\ ~tzThrows /\ IsWeekend(now)) => status = "WEEKEND"

\* C10 (amended): on a Saturday or Sunday getMarketStatus is WEEKEND at every
\* time of day unless the holiday predicate flags the date, and then it is
\* MARKET_CLOSED.
C10_WeekendUnlessHoliday ==
    (status # "none" /\ ~tzThrows /\ IsWeekend(now)) =>
        status = IF HolidayFlagged(now) THEN "MARKET_CLOSED" ELSE "WEEKEND"

\* C10 witness: a Saturday or Sunday classified inside the open window.
C10_Witness ==
    /\ ~tzThrows
    /\ status = "WEEKEND"
    /\ IsWeekend(now)
    /\ MinutesOfDay(now) >= MARKET_OPEN
    /\ MinutesOfDay(now) < MARKET_CLOSE

\* C1 (as claimed): when a wake fires and the callback recomputes the session
\* state, the state it stores is the nextStatus of the plan that armed the wake.
C1_RoundTrip ==
    (lastFired # NoFire /\ ~lastFired.threw) =>
        lastFired.observed = lastFired.predicted

\* C2 (as claimed): from the reading a wake was armed at, getMarketStatus keeps
\* its value at every instant before the wake is due and has another at the
\* instant it is due.
C2_ExactNextChange ==
    \A t \in sched.timers :
        /\ (now < due(t)) => getMarketStatus(now) = getMarketStatus(t.armedAt)
        /\ (now = due(t)) => getMarketStatus(now) # getMarketStatus(t.armedAt)

\* C4 (as claimed): once a mounted hook has recomputed its state at a wake and
\* its effects have run, whenever the session state is MARKET_CLOSED or WEEKEND
\* the stored priceInterval is null and price polling is stopped.
C4_PausedWhenClosed ==
    (mounted /\ ~renderPending /\ state.lastUpdateTime # null
        /\ getMarketStatus(now) \in {"MARKET_CLOSED", "WEEKEND"}) =>
            /\ state.marketState.pollingConfig.priceInterval = null
            /\ ~polling

\* C5: at most one wake is pending at any time.
C5_AtMostOneWake == Cardinality(sched.timers) <= 1

\* C5 witness: a wake fired, its callback re-armed, the polling effect then
\* cleaned up and re-armed again (smartTimeoutId is set again), one wake pending.
C5_Witness ==
    /\ mounted /\ ~renderPending
    /\ lastFired # NoFire
    /\ state.smartTimeoutId # NoTimer
    /\ Cardinality(sched.timers) = 1

\* C6 (as claimed): while the hook is mounted, once the effects of a mount or
\* of a firing have run, a wake is pending.
C6_AlwaysRearmed ==
    (mounted /\ ~renderPending /\ effectDeps # <<>>) => sched.timers # {}

\* C7: a wake that was pending when clearSchedule or the unmount cleanup ran
\* never fires, and while the hook is unmounted no wake is pending.
C7_CancelledNeverFires ==
    /\ ~lastFired.revoked
    /\ sched.revoked = {}
    /\ ~mounted => sched.timers = {}

\* C7 witness: a wake fired and its callback re-armed, then the component
\* unmounted at that instant, before the new wake could fire.
C7_Witness ==
    /\ ~mounted
    /\ mounts > 0
    /\ lastFired # NoFire
    /\ ~lastFired.threw
    /\ sched.timers = {}


(********************** claims on the direct calls *************************)
\* Milliseconds from t to h:m:00 of t's day.
MsUntil(t, h, m) == ((h * 60 + m) * 60 - (t % DaySeconds)) * 1000

\* The policy table of the specification, by session state.
PolicyTable(st) ==
    IF st \in {"MARKET_OPEN", "FINAL_CAPTURE"}
    THEN [priceInterval |-> 60000, newsInterval |-> 900000, shouldPoll |-> TRUE]
    ELSE [priceInterval |-> null, newsInterval |-> 7200000, shouldPoll |-> FALSE]

\* C11: getPollingConfig returns the policy-table row of the session state, and
\* shouldPoll is true exactly when priceInterval is not null.
C11_PolicyTable ==
    called.fn = "getPollingConfig" =>
        /\ called.value = PolicyTable(getMarketStatus(now))
        /\ called.value.shouldPoll <=> (called.value.priceInterval # null)

\* C11 witness: the policy asked for inside the final-capture minute.
C11_Witness ==
    /\ ~tzThrows
    /\ called.fn = "getPollingConfig"
    /\ getMarketStatus(now) = "FINAL_CAPTURE"
    /\ called.value.priceInterval = 60000

\* C12: when the holiday predicate throws during the search for the next
\* trading day (a weekday after the close minute), getNextMarketStateChange
\* returns 60000 ms and the session state of the current clock reading.
C12_Fallback ==
    (nextChange # NoPlan /\ holidayThrows /\ ~IsWeekend(now)
        /\ MinutesOfDay(now) > MARKET_CLOSE) =>
            /\ nextChange.milliseconds = 60000
            /\ nextChange.nextStatus = getMarketStatus(now)

\* C12 witness: the fallback taken inside the final-capture minute.
C12_Witness ==
    /\ nextChange # NoPlan
    /\ holidayThrows
    /\ nextChange.milliseconds = 60000
    /\ nextChange.nextStatus = "FINAL_CAPTURE"
    /\ nextChange.description = "Fallback check in 1 minute"

\* C13 (as claimed): no directly called function lets an error escape.
C13_NothingPropagates == ~called.threw

FirstTradingDayAfter(t) ==
    Min({d \in (DayIndex(t) + 1)..(DayIndex(t) + LookAhead + 7) :
            /\ (d + 4) % 7 \in TRADING_DAYS_MIN..TRADING_DAYS_MAX
            /\ d \notin holidays})

\* The plan p, made at t, aims at 9:30 of the next trading day.
AimsAtNextTradingOpen(p, t) ==
    /\ t * 1000 + p.milliseconds
          = (FirstTradingDayAfter(t) * DaySeconds + MARKET_OPEN * 60) * 1000
    /\ p.nextStatus = "MARKET_OPEN"

\* C16 (as claimed): on a Saturday or Sunday the plan aims at 9:30 of the first
\* later weekday that is no holiday, with nextStatus MARKET_OPEN.
C16_WeekendSkipsHolidays ==
    (nextChange # NoPlan /\ IsWeekend(now) /\ ~holidayThrows /\ ~tzThrows) =>
        AimsAtNextTradingOpen(nextChange, now)

\* C17: on a weekday after the close minute the plan aims at 9:30 of the first
\* later day that is neither Saturday, Sunday nor a holiday, with nextStatus
\* MARKET_OPEN.
C17_AfterCloseNextTradingDay ==
    (nextChange # NoPlan /\ ~IsWeekend(now) /\ ~holidayThrows /\ ~tzThrows
        /\ MinutesOfDay(now) > MARKET_CLOSE) =>
            AimsAtNextTradingOpen(nextChange, now)

\* C17 witness: Friday 5:00 PM with the Monday a holiday; the plan aims at
\* Tuesday 9:30.
C17_Witness ==
    /\ ~tzThrows
    /\ nextChange # NoPlan
    /\ ~holidayThrows
    /\ getDay(now) = 5
    /\ now % DaySeconds = 17 * 3600
    /\ (DayIndex(now) + 3) \in holidays
    /\ now * 1000 + nextChange.milliseconds
          = ((DayIndex(now) + 4) * DaySeconds + MARKET_OPEN * 60) * 1000

\* C18: on a weekday before the open minute the plan is (9:30 today - now,
\* MARKET_OPEN); with the minute of day in [570, 990) it is (16:30 today - now,
\* FINAL_CAPTURE).
C18_SameDayBranches ==
    (nextChange # NoPlan /\ ~tzThrows /\ ~IsWeekend(now)) =>
        /\ MinutesOfDay(now) < MARKET_OPEN =>
              /\ nextChange.milliseconds = MsUntil(now, 9, 30)
              /\ nextChange.nextStatus = "MARKET_OPEN"
        /\ (MinutesOfDay(now) >= MARKET_OPEN /\ MinutesOfDay(now) < MARKET_CLOSE) =>
              /\ nextChange.milliseconds = MsUntil(now, 16, 30)
              /\ nextChange.nextStatus = "FINAL_CAPTURE"

\* C18 witness: Monday 9:00 AM gives 30 minutes and MARKET_OPEN.
C18_Witness ==
    /\ ~tzThrows
    /\ getDay(now) = 1
    /\ now % DaySeconds = 9 * 3600
    /\ nextChange.milliseconds = 30 * 60 * 1000
    /\ nextChange.nextStatus = "MARKET_OPEN"

\* C19 (as claimed): in the close minute of a weekday the plan's duration is
\* one minute and nextStatus is FINAL_CAPTURE.
C19_OneMinute ==
    (nextChange # NoPlan /\ ~tzThrows /\ ~IsWeekend(now)
        /\ MinutesOfDay(now) = MARKET_CLOSE) =>
        /\ nextChange.milliseconds = 60000
        /\ nextChange.nextStatus = "FINAL_CAPTURE"

\* C19 (amended): in the close minute of a weekday the plan's duration is the
\* time left until 16:31:00 (one minute at 16:30:00, less afterwards) and
\* nextStatus is FINAL_CAPTURE.
C19_UntilFinalCapture ==
    (nextChange # NoPlan /\ ~tzThrows /\ ~IsWeekend(now)
        /\ MinutesOfDay(now) = MARKET_CLOSE) =>
        /\ nextChange.milliseconds = MsUntil(now, 16, 31)
        /\ nextChange.milliseconds > 0
        /\ nextChange.milliseconds <= 60000
        /\ MinutesOfDay(now + nextChange.milliseconds \div 1000) = FINAL_CLOSE
        /\ nextChange.nextStatus = "FINAL_CAPTURE"

\* C19 witness: a plan made at 16:30:00 of a weekday, one minute long.
C19_Witness ==
    /\ ~tzThrows
    /\ nextChange # NoPlan
    /\ ~IsWeekend(now)
    /\ now % DaySeconds = 16 * 3600 + 30 * 60
    /\ nextChange.milliseconds = 60000

\* getMarketStatus on a date the holiday predicate answers false for.
PlainStatus(t) ==
    IF IsWeekend(t) THEN "WEEKEND"
    ELSE IF MinutesOfDay(t) >= MARKET_OPEN /\ MinutesOfDay(t) <= MARKET_CLOSE
    THEN "MARKET_OPEN"
    ELSE IF MinutesOfDay(t) = FINAL_CLOSE THEN "FINAL_CAPTURE"
    ELSE "MARKET_CLOSED"

\* C20: while the holiday predicate throws, getMarketStatus returns what it
\* returns for a date that is no holiday.
C20_FailOpen ==
    (status # "none" /\ holidayThrows) => status = PlainStatus(now)

\* C20 witness: a day of the calendar's holiday, classified MARKET_OPEN while
\* the predicate throws.
C20_Witness ==
    /\ holidayThrows
    /\ DayIndex(now) \in holidays
    /\ status = "MARKET_OPEN"

\* C21: getMarketStatus returns one of the four session states for every
\* clock reading, the holiday deciding before the weekend and the weekend
\* before the time of day: a flagged date is MARKET_CLOSED, a Saturday or
\* Sunday included; an unflagged Saturday or Sunday is WEEKEND; only an
\* unflagged weekday is classified by its minute.
C21_PriorityAndTotality ==
    (status # "none" /\ ~tzThrows) =>
        /\ status \in MarketStatus
        /\ HolidayFlagged(now) => status = "MARKET_CLOSED"
        /\ (~HolidayFlagged(now) /\ IsWeekend(now)) => status = "WEEKEND"
        /\ (~HolidayFlagged(now) /\ ~IsWeekend(now)) =>
              /\ status # "WEEKEND"
              /\ status = "MARKET_OPEN" =>
                    (MinutesOfDay(now) >= MARKET_OPEN /\ MinutesOfDay(now) <= MARKET_CLOSE)
              /\ status = "FINAL_CAPTURE" => MinutesOfDay(now) = FINAL_CLOSE

\* C21 witness: a Saturday or Sunday the holiday predicate flags, classified
\* MARKET_CLOSED inside the open window.
C21_Witness ==
    /\ ~tzThrows
    /\ IsWeekend(now)
    /\ HolidayFlagged(now)
    /\ MinutesOfDay(now) >= MARKET_OPEN
    /\ MinutesOfDay(now) < MARKET_CLOSE
    /\ status = "MARKET_CLOSED"

\* The host's own wall clock at the reading t.
HostTime(t) == t + hostOffset * 3600

\* C22: when the time-zone conversion throws, getEasternTime returns the
\* host's own current time, and the session state and the plan computed from
\* it are values: the session state is that of the host's wall clock, the plan
\* has a positive duration and a session state as nextStatus, and neither call
\* throws.
C22_ClockFallback ==
    tzThrows =>
        /\ getEasternTime(now) = HostTime(now)
        /\ status # "none" => status = PlainStatus(HostTime(now))
        /\ nextChange # NoPlan =>
              /\ nextChange.milliseconds > 0
              /\ nextChange.nextStatus \in MarketStatus
        /\ called.fn \in {"getMarketStatus", "getNextMarketStateChange", "getPollingConfig"} =>
              ~called.threw

\* C22 witness: the conversion threw on a host five hours ahead of the
\* exchange; the session state is MARKET_OPEN by the host's clock while the
\* exchange's own clock is before the open.
C22_Witness ==
    /\ tzThrows
    /\ hostOffset = 5
    /\ MinutesOfDay(now) < MARKET_OPEN
    /\ PlainStatus(now) = "MARKET_CLOSED"
    /\ status = "MARKET_OPEN"

\* C26 (as claimed): every snapshot getMarketState returns agrees with itself:
\* isOpen, status being MARKET_OPEN or FINAL_CAPTURE, pollingConfig.shouldPoll,
\* pollingConfig.priceInterval being set, and dataStatus.isLive are all equal,
\* also when the clock crosses a session boundary between the readings.
C26_ConsistentSnapshot ==
    (called.fn = "getMarketState" /\ ~called.threw) =>
        LET snapshot == called.value IN
        /\ snapshot.isOpen = (snapshot.status \in {"MARKET_OPEN", "FINAL_CAPTURE"})
        /\ snapshot.isOpen = snapshot.pollingConfig.shouldPoll
        /\ snapshot.isOpen = (snapshot.pollingConfig.priceInterval # null)
        /\ snapshot.isOpen = snapshot.dataStatus.isLive

\* C27 (as claimed): whenever getNextMarketStateChange plans for MARKET_OPEN,
\* getMillisecondsUntilMarketOpen on the same clock reading is the plan's
\* milliseconds rounded down to whole minutes.
C27_NextOpenAgrees ==
    (nextChange # NoPlan /\ nextChange.nextStatus = "MARKET_OPEN" /\ ~holidayThrows) =>
        getMillisecondsUntilMarketOpen(now).value
            = (nextChange.milliseconds \div 60000) * 60000

\* The day d, strictly after the day of t and at most a week and the
\* calendar's reach away, is a weekday and no holiday.
LaterTradingDay(d, t) ==
    /\ d > DayIndex(t)
    /\ d <= DayIndex(t) + LookAhead + 7
    /\ (d + 4) % 7 \in TRADING_DAYS_MIN..TRADING_DAYS_MAX
    /\ d \notin holidays

\* getTimeUntilMarketOpen runs its skip loop at t.
SearchesNextOpen(t) ==
    /\ ~isMarketOpen(t)
    /\ MinutesOfDay(t) > MARKET_CLOSE \/ IsWeekend(t) \/ HolidayFlagged(t)

\* C28: while the holiday predicate answers, both searches for the next
\* trading day end, after boundedly many day increments, on a day strictly
\* later than today that is a weekday and no holiday: the after-close search
\* of getNextMarketStateChange and the search of getTimeUntilMarketOpen.
C28_SearchesTerminate ==
    (~holidayThrows /\ ~tzThrows) =>
        /\ (nextChange # NoPlan /\ ~IsWeekend(now) /\ MinutesOfDay(now) > MARKET_CLOSE) =>
              LaterTradingDay(DayIndex(now + nextChange.milliseconds \div 1000), now)
        /\ (called.fn = "getMillisecondsUntilMarketOpen" /\ SearchesNextOpen(now)) =>
              /\ ~called.threw
              /\ LaterTradingDay(DayIndex(now + called.value \div 1000), now)

\* C28 witness: Friday after the close with the Monday a holiday; the search
\* of getTimeUntilMarketOpen passed Saturday, Sunday and Monday and stopped on
\* Tuesday.
C28_Witness ==
    /\ ~holidayThrows /\ ~tzThrows
    /\ called.fn = "getMillisecondsUntilMarketOpen"
    /\ getDay(now) = 5
    /\ MinutesOfDay(now) > MARKET_CLOSE
    /\ (DayIndex(now) + 3) \in holidays
    /\ DayIndex(now + called.value \div 1000) = DayIndex(now) + 4

(************************* claims on the caches ****************************)
\* The cached entry of the last call's ticker was fresh for the call's price:
\* it existed, was at most 15 minutes old, and its lastPrice was 0 or less
\* than 2% away from the price.
FreshEntry ==
    LET e == lastNews.before IN
    /\ e.exists
    /\ DateNow(now) - e.timestamp <= NEWS_CACHE_DURATION
    /\ \/ e.lastPrice = 0
       \/ Abs(lastNews.price - e.lastPrice) * 100 < 2 * e.lastPrice

Elapsed == DateNow(now) - DateNow(lastSummary.before.at)

\* The entry the read's address is stored under.
StoredEntry == storage[getCacheKey(lastSummary.address)]

\* C30 (as claimed): getCachedSummary(v), for any v with the address a summary
\* was written for, returns that summary while less than 3 days have passed
\* since the write; after 3 days or more, or when the stored value is no JSON,
\* it returns null and the entry is gone from storage; a read after a read
\* that answered null answers null.
C30_ExpiryRemovesEntry ==
    lastSummary.fn = "getCachedSummary" =>
        LET made == lastSummary.before.made IN
        /\ (made = "written" /\ Elapsed < CACHE_DURATION) =>
              lastSummary.result = lastSummary.before.summary
        /\ ((made = "written" /\ Elapsed >= CACHE_DURATION)
                \/ made \in {"garbage", "empty"}) =>
              /\ lastSummary.result = NoSummary
              /\ StoredEntry = NoItem
        /\ made \in {"answered null", "never"} => lastSummary.result = NoSummary

\* C30 (amended): as claimed, except that a stored empty string is answered
\* null and left in storage: getCachedSummary returns the summary written for
\* the address while less than 3 days have passed; after 3 days or more, or
\* when the stored value is a non-empty string that is no JSON, it returns null
\* and the entry is gone; a stored empty string is answered null and stays;
\* a read after a read that answered null answers null.
C30_ExpiryKeepsEmptyString ==
    lastSummary.fn = "getCachedSummary" =>
        LET made == lastSummary.before.made IN
        /\ (made = "written" /\ Elapsed < CACHE_DURATION) =>
              /\ lastSummary.result = lastSummary.before.summary
              /\ StoredEntry = Item(lastSummary.before.summary,
                                    DateNow(lastSummary.before.at))
        /\ ((made = "written" /\ Elapsed >= CACHE_DURATION) \/ made = "garbage") =>
              /\ lastSummary.result = NoSummary
              /\ StoredEntry = NoItem
        /\ made = "empty" =>
              /\ lastSummary.result = NoSummary
              /\ StoredEntry = EmptyString
        /\ made \in {"answered null", "never"} =>
              /\ lastSummary.result = NoSummary
              /\ StoredEntry \in {NoItem, EmptyString}

\* C30 witness: a summary written for an address without a query string is
\* read, exactly 3 days later, through a URL with a query string: the answer
\* is null and the entry is gone.
C30_Witness ==
    /\ lastSummary.fn = "getCachedSummary"
    /\ lastSummary.url # lastSummary.address
    /\ lastSummary.before.made = "written"
    /\ Elapsed = CACHE_DURATION
    /\ lastSummary.result = NoSummary
    /\ StoredEntry = NoItem

(************************ claims on the scheduler **************************)
\* A weekday the holiday predicate does not flag.
TradingDay(t) == ~IsWeekend(t) /\ ~HolidayFlagged(t)

\* Seconds of the day at 16:30:00 and at 16:31:00.
CloseSecond == MARKET_CLOSE * 60
FinalSecond == FINAL_CLOSE * 60

\* C24: on a trading day, while the hook is mounted with its effects run,
\* before 16:30:00 a wake is pending that is due by 16:30:00, and from then
\* until 16:31:00 one that is due by 16:31:00; the wake that fires at 16:30:00
\* stores MARKET_OPEN and leaves a wake due at 16:31:00 planned as
\* FINAL_CAPTURE; the wake that fires at 16:31:00 stores FINAL_CAPTURE.
C24_FinalCaptureObserved ==
    LET sod == now % DaySeconds
        boundary == IF sod < CloseSecond THEN CloseSecond ELSE FinalSecond
    IN  (mounted /\ effectDeps # <<>> /\ TradingDay(now)) =>
            /\ sod < FinalSecond =>
                  \E t \in sched.timers :
                      due(t) >= now /\ due(t) <= now - sod + boundary
            /\ (lastFired # NoFire /\ sod = CloseSecond) =>
                  /\ lastFired.observed = "MARKET_OPEN"
                  /\ \E t \in sched.timers :
                        /\ due(t) = now - sod + FinalSecond
                        /\ t.nextChange.nextStatus = "FINAL_CAPTURE"
            /\ (lastFired # NoFire /\ sod = FinalSecond) =>
                  lastFired.observed = "FINAL_CAPTURE"

\* C24 witness: the wake planned as FINAL_CAPTURE at 16:30:00 fired at
\* 16:31:00 of a trading day and the stored state is FINAL_CAPTURE.
C24_Witness ==
    /\ mounted /\ ~renderPending
    /\ TradingDay(now)
    /\ now % DaySeconds = FinalSecond
    /\ lastFired.predicted = "FINAL_CAPTURE"
    /\ lastFired.observed = "FINAL_CAPTURE"
    /\ state.marketState.status = "FINAL_CAPTURE"
    /\ state.marketState.pollingConfig.priceInterval = POLLING_FINAL_CAPTURE

\* C25 (as claimed): while the hook is mounted and its effects have run,
\* state.smartTimeoutId is set exactly when the wake timeoutRef refers to is
\* pending, so debug.smartScheduled tells whether a wake is pending.
C25_SmartTimeoutMirrors ==
    (mounted /\ ~renderPending /\ effectDeps # <<>>) =>
        (state.smartTimeoutId # NoTimer
            <=> \E t \in sched.timers : t.id = sched.timeoutRef)

\* C23 (as claimed): whenever a mounted hook has just armed a wake, at a mount
\* or after a firing, the stored marketState.status is the session state of
\* the clock reading the wake was armed at.
C23_StoredStateCurrent ==
    (mounted /\ \E t \in sched.timers : t.armedAt = now) =>
        state.marketState.status = getMarketStatus(now)

\* C14: clearSchedule called twice leaves what one call leaves; a call cancels
\* no wake but the one timeoutRef holds, and none when that wake has fired or
\* no wake is held.
C14_ClearIdempotent ==
    LET h == [state |-> state, sched |-> sched]
        once == clearSchedule(h)
    IN  /\ clearSchedule(once) = once
        /\ once.sched.timers \subseteq sched.timers
        /\ \A t \in sched.timers \ once.sched.timers : t.id = sched.timeoutRef
        /\ (\A t \in sched.timers : t.id # sched.timeoutRef) =>
              once.sched.timers = sched.timers

\* C14 witness: the component unmounted right after a wake whose callback
\* failed: the cleanup's clearSchedule met a reference to a wake that had fired.
C14_Witness ==
    /\ ~mounted
    /\ mounts > 0
    /\ lastFired # NoFire
    /\ lastFired.threw
    /\ sched.timeoutRef = NoTimer
    /\ sched.timers = {}

====
